---- MODULE Spec2Model ----
(***************************************************************************)
(* A model of src/src/EventManager.ts: the EventManager class, its two     *)
(* indexes (_eventNodesMapByType, _eventNodeMapById), the id counter and   *)
(* the operations on, once, off (both shapes), offAll (both shapes), emit  *)
(* and getEventNodes.  emit calls listeners synchronously; a listener is   *)
(* arbitrary caller code, so while a listener runs it may call any         *)
(* operation of the same manager, return, or throw.  The call stack of     *)
(* emit invocations is part of the state.                                  *)
(***************************************************************************)
EXTENDS Integers, Sequences, FiniteSets, TLC

\* ------------------------------------------------------------------ bounds
MaxId == 3        \* at most this many on/once calls
MaxDepth == 2     \* at most this many emit calls in progress at once

\* ------------------------------------------------------------ input values
\* JavaScript values that matter to the code: undefined, null, an object, 0
Undefined == [t |-> "undefined"]
Null == [t |-> "null"]
TargetObj == [t |-> "object"]
\* the number 0: a target that is neither null nor undefined, and falsy
Zero == [t |-> "number", v |-> 0]

\* keyof M: the event keys callers use; "1" is a key that is also an id string
Types == {"work", "1"}
Data == {"Alice", "Bob"}

\* `${n}`: the decimal string of the counter
IdString(n) == ToString(n)
\* every single string argument off() is tried with
OffStrings == {IdString(n) : n \in 0..MaxId} \cup Types

\* a default parameter (target: any = null) replaces undefined only
DefaultNull(v) == IF v = Undefined THEN Null ELSE v
\* JavaScript truthiness of the values above
Truthy(v) == v.t = "object" \/ (v.t = "number" /\ v.v # 0)

VARIABLES
    _id,                    \* private _id
    _eventNodesMapByType,   \* Map<type, array>: type -> reference of its array
    _eventNodeMapById,      \* Map<id, node>
    arrays,                 \* the arrays of event nodes, by reference
    held,                   \* the array the last getEventNodes call returned
    stack,                  \* the emit calls in progress, innermost last
    done,                   \* the emit call that just ended, until the next call
    issued,                 \* history: the ids on/once returned, in order
    onceRegs,               \* history: the id and type of every registration made
                            \*   by once, or by on with {once: true}
    onceCalls,              \* history: how often the listener of each of these
                            \*   registrations was called
    lastCall                \* history: the call the last step made, where the
                            \*   caller keeps a log of its calls

vars == <<_id, _eventNodesMapByType, _eventNodeMapById, arrays, held, stack, done,
          issued, onceRegs, onceCalls, lastCall>>

\* ----------------------------------------------------------------- helpers
\* a function without key k (Map.delete)
MapDelete(m, k) == [x \in DOMAIN m \ {k} |-> m[x]]
\* a function with key k set to v (Map.set)
MapSet(m, k, v) == [x \in DOMAIN m \cup {k} |-> IF x = k THEN v ELSE m[x]]
EmptyMap == [x \in {} |-> Undefined]

\* Array.prototype.indexOf, 1-based; 0 stands for -1
IndexOf(arr, x) ==
    IF \E i \in 1..Len(arr) : arr[i] = x
    THEN CHOOSE i \in 1..Len(arr) : arr[i] = x /\ \A j \in 1..(i - 1) : arr[j] # x
    ELSE 0

\* Array.prototype.splice(index, 1)
Splice(arr, index) == SubSeq(arr, 1, index - 1) \o SubSeq(arr, index + 1, Len(arr))

\* the registry part of the state, as one value the handlers transform
Registry == [byType |-> _eventNodesMapByType, byId |-> _eventNodeMapById, arrays |-> arrays]

\* getEventNodes of a type without a bucket returns a new empty array (?? [])
FreshEmpty == "fresh"

\* no emit call has just ended
NoEmit == [outcome |-> "none"]

\* no getEventNodes call was made yet
NoHeld == [type |-> "", ref |-> "none"]

\* no call is logged
NoCall == [op |-> "none", args |-> <<>>]

\* the last step was no call: the running listener raised an error
Raised == [op |-> "raise", args |-> <<>>]

\* the array a reference denotes
ArrayOf(R, ref) == IF ref \in DOMAIN R.arrays THEN R.arrays[ref] ELSE <<>>

\* a condition that takes no node for a once node
IsOnce_Never(node) == FALSE

\* eventNode.options?.once, as a condition
IsOnce(node) ==
    /\ node.options # Undefined
    /\ "once" \in DOMAIN node.options
    /\ node.options.once

\* ------------------------------------------------------- private methods
\* _generateId without the increment
_generateId_NoIncrement(counter) == [id |-> IdString(counter), next |-> counter]

\* _generateId: the id string of the counter's value, which is then incremented
_generateId(counter) == [id |-> IdString(counter), next |-> counter + 1]

\* _registerEventNode with unshift for push
_registerEventNode_Unshift(R, eventNode) ==
    LET has == eventNode.type \in DOMAIN R.byType
        ref == IF has THEN R.byType[eventNode.type] ELSE eventNode.id
        eventNodes == IF has THEN R.arrays[ref] ELSE <<>>
    IN  [byType |-> MapSet(R.byType, eventNode.type, ref),
         byId |-> MapSet(R.byId, eventNode.id, eventNode),
         arrays |-> MapSet(R.arrays, ref, <<eventNode>> \o eventNodes)]

\* _registerEventNode: push onto the type's array (a new one if the type has
\* none), set the type's entry and the id's entry.  A new array's reference is
\* the id of the node it is created for.
_registerEventNode(R, eventNode) ==
    LET has == eventNode.type \in DOMAIN R.byType
        ref == IF has THEN R.byType[eventNode.type] ELSE eventNode.id
        eventNodes == IF has THEN R.arrays[ref] ELSE <<>>
    IN  [byType |-> MapSet(R.byType, eventNode.type, ref),
         byId |-> MapSet(R.byId, eventNode.id, eventNode),
         arrays |-> MapSet(R.arrays, ref, Append(eventNodes, eventNode))]

\* _unregisterEventNode that leaves the type's entry when the array became empty
_unregisterEventNode_KeepsEmpty(R, eventNode) ==
    IF eventNode.type \notin DOMAIN R.byType THEN R
    ELSE LET ref == R.byType[eventNode.type]
             index == IndexOf(R.arrays[ref], eventNode)
         IN  IF index = 0 THEN R
             ELSE [byType |-> R.byType,
                   byId |-> MapDelete(R.byId, eventNode.id),
                   arrays |-> MapSet(R.arrays, ref, Splice(R.arrays[ref], index))]

\* _unregisterEventNode: splice the node out of its type's array, delete the
\* type's entry when the array became empty, delete the id's entry
_unregisterEventNode(R, eventNode) ==
    IF eventNode.type \notin DOMAIN R.byType THEN R
    ELSE LET ref == R.byType[eventNode.type]
             index == IndexOf(R.arrays[ref], eventNode)
             spliced == Splice(R.arrays[ref], index)
         IN  IF index = 0 THEN R
             ELSE [byType |-> IF Len(spliced) = 0
                                THEN MapDelete(R.byType, eventNode.type)
                                ELSE R.byType,
                   byId |-> MapDelete(R.byId, eventNode.id),
                   arrays |-> MapSet(R.arrays, ref, spliced)]

\* _offById that unregisters by the node's type, listener and target: the
\* first node that has them
_offById_ByIdentity(R, id) ==
    IF id \notin DOMAIN R.byId THEN R
    ELSE LET eventNodes == R.arrays[R.byType[R.byId[id].type]]
             same == {p \in 1..Len(eventNodes) :
                         /\ eventNodes[p].listener = R.byId[id].listener
                         /\ eventNodes[p].target = R.byId[id].target}
         IN  _unregisterEventNode(R, eventNodes[CHOOSE p \in same : \A q \in same : p <= q])

\* _offById
_offById(R, id) ==
    IF id \notin DOMAIN R.byId THEN R
    ELSE _unregisterEventNode(R, R.byId[id])

\* the predicate of find without the comparison of the targets
OffMatches_ListenerOnly(eventNode, listener, target) ==
    eventNode.listener = listener

\* the predicate of find in _off
OffMatches(eventNode, listener, target) ==
    eventNode.listener = listener /\ eventNode.target = target

\* find that returns the last matching element
FindIndex_LastMatch(arr, listener, target) ==
    IF \E i \in 1..Len(arr) : OffMatches(arr[i], listener, target)
    THEN CHOOSE i \in 1..Len(arr) :
            /\ OffMatches(arr[i], listener, target)
            /\ \A j \in (i + 1)..Len(arr) : ~OffMatches(arr[j], listener, target)
    ELSE 0

\* Array.prototype.find: the first matching element's index, 0 for undefined
FindIndex(arr, listener, target) ==
    IF \E i \in 1..Len(arr) : OffMatches(arr[i], listener, target)
    THEN CHOOSE i \in 1..Len(arr) :
            /\ OffMatches(arr[i], listener, target)
            /\ \A j \in 1..(i - 1) : ~OffMatches(arr[j], listener, target)
    ELSE 0

\* _off(type, listener, target = null)
_off(R, type, listener, targetArg) ==
    LET target == DefaultNull(targetArg) IN
    IF type \notin DOMAIN R.byType THEN R
    ELSE LET eventNodes == R.arrays[R.byType[type]]
             found == FindIndex(eventNodes, listener, target)
         IN  IF found = 0 THEN R
             ELSE _unregisterEventNode(R, eventNodes[found])

\* offAll() that clears _eventNodesMapByType only
offAllTypes_KeepsIds(R) == [byType |-> EmptyMap, byId |-> R.byId, arrays |-> R.arrays]

\* offAll(): clear both maps
offAllTypes(R) == [byType |-> EmptyMap, byId |-> EmptyMap, arrays |-> R.arrays]

\* offAll(type) that clears both maps
offAllOfType_Everything(R, type) == offAllTypes(R)

\* offAll(type) without the loop that deletes the ids
offAllOfType_KeepsIds(R, type) ==
    IF type \notin DOMAIN R.byType THEN R
    ELSE [byType |-> MapDelete(R.byType, type), byId |-> R.byId, arrays |-> R.arrays]

\* offAll(type): delete the type's entry, then the id entry of every node of
\* its array
offAllOfType(R, type) ==
    IF type \notin DOMAIN R.byType THEN R
    ELSE LET eventNodes == R.arrays[R.byType[type]]
             ids == {eventNodes[i].id : i \in 1..Len(eventNodes)}
         IN  [byType |-> MapDelete(R.byType, type),
              byId |-> [k \in DOMAIN R.byId \ ids |-> R.byId[k]],
              arrays |-> R.arrays]

\* getEventNodes(type): the type's array itself, or a new empty one
getEventNodes(R, type) ==
    IF type \in DOMAIN R.byType THEN R.byType[type] ELSE FreshEmpty

\* getStatusInfo(): what the text reports.  It says "(No registered events)"
\* when _eventNodesMapByType is empty; otherwise it has, for every key of the
\* map, a line with the type and the length of its array (Count) and below it a
\* line for every node of the array with its id and Once: Y or N.  The frame
\* around the text and the number of each type's line are left out.
getStatusInfo(R) ==
    IF DOMAIN R.byType = {}
    THEN [registered |-> FALSE, types |-> {}]
    ELSE [registered |-> TRUE,
          types |-> {[type |-> t,
                      count |-> Len(R.arrays[R.byType[t]]),
                      nodes |-> [p \in 1..Len(R.arrays[R.byType[t]]) |->
                                  [id |-> R.arrays[R.byType[t]][p].id,
                                   once |-> IF IsOnce(R.arrays[R.byType[t]][p])
                                            THEN "Y" ELSE "N"]]] :
                     t \in DOMAIN R.byType}]

\* An array no map entry and no caller refers to is garbage: it is dropped
\* from the state.
Collect(R, heldRef) ==
    LET live == ({R.byType[t] : t \in DOMAIN R.byType} \cup {heldRef}) \cap DOMAIN R.arrays
    IN  [R EXCEPT !.arrays = [r \in live |-> R.arrays[r]]]

\* ------------------------------------------------------------ the program
Init ==
    /\ _id = 0
    /\ _eventNodesMapByType = EmptyMap
    /\ _eventNodeMapById = EmptyMap
    /\ arrays = EmptyMap
    /\ held = NoHeld
    /\ stack = <<>>
    /\ done = NoEmit
    /\ issued = <<>>
    /\ onceRegs = {}
    /\ onceCalls = EmptyMap
    /\ lastCall = NoCall

\* An emit call in progress is a record of its locals (type, data,
\* nodesToExecute, the loop's position i, and the arguments and the this of the
\* listener call it is in) and of what happened during it:
\*   fired       the ids of the nodes whose listeners it called, in order
\*   offedEarly  ids an off/offAll call removed before the loop reached them
\*   firedEarly  ids another emit removed as once nodes before the loop
\*               reached them
\*   removed     ids any call removed while it was in progress
\*   registered  ids registered for its type while it was in progress
\*   nested      emit was called while it was in progress
\*   clearedAt   the position i it was at when offAll() or offAll(its type) was
\*               first called while it was in progress, 0 if that never happened
Ids(nodes) == {nodes[p].id : p \in 1..Len(nodes)}
Ahead(frame) ==
    {frame.nodesToExecute[p].id : p \in (frame.i + 1)..Len(frame.nodesToExecute)}

\* what a registry call made while they are in progress means to the emit calls
Observe(stk, R, how, newNodes, clearedTypes, isEmit) ==
    LET gone == DOMAIN _eventNodeMapById \ DOMAIN R.byId IN
    [k \in 1..Len(stk) |->
        [stk[k] EXCEPT
            !.offedEarly = IF how = "off" THEN @ \cup (Ahead(stk[k]) \cap gone) ELSE @,
            !.firedEarly = IF how = "once" THEN @ \cup (Ahead(stk[k]) \cap gone) ELSE @,
            !.removed = @ \cup gone,
            !.registered = @ \cup {n.id : n \in {m \in newNodes : m.type = stk[k].type}},
            !.clearedAt = IF @ = 0 /\ stk[k].type \in clearedTypes THEN stk[k].i ELSE @,
            !.nested = @ \/ isEmit]]

\* the registry after a handler
Store(R, heldNow) ==
    LET C == Collect(R, heldNow.ref)
    IN  /\ _eventNodesMapByType' = C.byType
        /\ _eventNodeMapById' = C.byId
        /\ arrays' = C.arrays
        /\ held' = heldNow

\* on(type, listener, target = null, options)
on(type, listener, targetArg, options) ==
    LET generated == _generateId(_id)
        eventNode == [id |-> generated.id, type |-> type, listener |-> listener,
                      target |-> DefaultNull(targetArg), options |-> options]
        R == _registerEventNode(Registry, eventNode)
    IN  /\ _id < MaxId
        /\ _id' = generated.next
        /\ Store(R, held)
        /\ issued' = Append(issued, eventNode.id)
        /\ stack' = Observe(stack, R, "off", {eventNode}, {}, FALSE)
        /\ done' = NoEmit
        /\ UNCHANGED onceCalls

\* a call of on by a caller or a listener
OnCall(type, listener, targetArg, options) ==
    /\ on(type, listener, targetArg, options)
    /\ onceRegs' = IF IsOnce([options |-> options])
                   THEN onceRegs \cup {[id |-> issued'[Len(issued')], type |-> type]}
                   ELSE onceRegs

\* once that passes on { once: true } whatever the options are
OnceOptions_OnceAlone(options) == [once |-> TRUE]

\* once that passes its options on as they are
OnceOptions_AsGiven(options) == options

\* { ...options, once: true }
OnceOptions(options) ==
    MapSet(IF options = Undefined THEN EmptyMap ELSE options, "once", TRUE)

\* once(type, listener, target = null, options)
once(type, listener, targetArg, options) ==
    /\ on(type, listener, targetArg, OnceOptions(options))
    /\ onceRegs' = onceRegs \cup {[id |-> issued'[Len(issued')], type |-> type]}

\* off that takes one string argument for an event key if it is one
off_KeyFirst(R, args) ==
    IF Len(args) = 1
    THEN IF args[1] \in DOMAIN R.byType THEN offAllOfType(R, args[1])
         ELSE _offById(R, args[1])
    ELSE _off(R, args[1], args[2], IF Len(args) >= 3 THEN args[3] ELSE Undefined)

\* off(...args): one string argument is an id, anything else is
\* (type, listener, target).  Every key in Types and every id is a string.
off(R, args) ==
    IF Len(args) = 1 THEN _offById(R, args[1])
    ELSE _off(R, args[1], args[2], IF Len(args) >= 3 THEN args[3] ELSE Undefined)

\* a call that only removes nodes
Removal(R, clearedTypes) ==
    /\ Store(R, held)
    /\ stack' = Observe(stack, R, "off", {}, clearedTypes, FALSE)
    /\ done' = NoEmit
    /\ UNCHANGED <<_id, issued, onceRegs, onceCalls>>

\* a call of off with one string
OffById(x) == Removal(off(Registry, <<x>>), {})

\* a call of off with a type, a listener and, unless omitted, a target
OffByIdentity(type, listener, targetArg) ==
    Removal(off(Registry, IF targetArg = Undefined THEN <<type, listener>>
                          ELSE <<type, listener, targetArg>>), {})

\* a call of the function on returned for the node with this id
\* (offEventFunction = () => this._offById(eventNode.id))
offEventFunction(id) ==
    /\ \E k \in 1..Len(issued) : issued[k] = id
    /\ Removal(_offById(Registry, id), {})

\* offAll(type?): args is <<>> for offAll() and <<type>> for offAll(type)
offAll(args) ==
    IF Len(args) = 0 THEN Removal(offAllTypes(Registry), Types)
    ELSE Removal(offAllOfType(Registry, args[1]), {args[1]})

\* a call of getEventNodes whose result the caller keeps
GetEventNodes(type) ==
    /\ Store(Registry, [type |-> type, ref |-> getEventNodes(Registry, type)])
    /\ done' = NoEmit
    /\ UNCHANGED <<_id, stack, issued, onceRegs, onceCalls>>

\* the loop that does not move on from an element whose node is registered
NextIndex_Repeat(R, frame) ==
    LET rest == {j \in frame.i..Len(frame.nodesToExecute) :
                    j >= 1 /\ frame.nodesToExecute[j].id \in DOMAIN R.byId}
    IN  IF rest = {} THEN 0 ELSE CHOOSE j \in rest : \A k \in rest : j <= k

\* the loop without the lookup in _eventNodeMapById
NextIndex_NoHasCheck(R, frame) ==
    IF frame.i < Len(frame.nodesToExecute) THEN frame.i + 1 ELSE 0

\* the for loop of emit from the element after frame.i: the next element of
\* nodesToExecute whose id _eventNodeMapById has, 0 when the loop is over
NextIndex(R, frame) ==
    LET rest == {j \in (frame.i + 1)..Len(frame.nodesToExecute) :
                    frame.nodesToExecute[j].id \in DOMAIN R.byId}
    IN  IF rest = {} THEN 0 ELSE CHOOSE j \in rest : \A k \in rest : j <= k

\* a once node that is not unregistered before its listener is called
BeforeListener_KeepsNode(R, eventNode) == R

\* the registry when the listener of eventNode is called: a once node is
\* unregistered first
BeforeListener(R, eventNode) ==
    IF IsOnce(eventNode) THEN _unregisterEventNode(R, eventNode) ELSE R

\* how the listener is called: bound to the target if it is truthy
ThisOf(eventNode) == IF Truthy(eventNode.target) THEN eventNode.target ELSE Undefined

\* an emit call that ended: what it was, and how its caller got control back
Ended(frame, outcome) ==
    [outcome |-> outcome, type |-> frame.type, data |-> frame.data,
     nodesToExecute |-> frame.nodesToExecute, i |-> frame.i, fired |-> frame.fired,
     offedEarly |-> frame.offedEarly, firedEarly |-> frame.firedEarly,
     removed |-> frame.removed, registered |-> frame.registered,
     nested |-> frame.nested, clearedAt |-> frame.clearedAt]

\* emit's loop runs until it calls the next listener, or returns
Loop(below, frame) ==
    LET j == NextIndex(Registry, frame) IN
    IF j = 0
    THEN /\ stack' = below
         /\ done' = Ended(frame, "returned")
         /\ UNCHANGED <<_eventNodesMapByType, _eventNodeMapById, arrays, held, onceCalls>>
    ELSE LET eventNode == frame.nodesToExecute[j]
             R == BeforeListener(Registry, eventNode)
             now == [frame EXCEPT !.i = j,
                                  !.args = frame.data,
                                  !.this = ThisOf(eventNode),
                                  !.fired = Append(@, eventNode.id),
                                  !.removed = @ \cup (DOMAIN _eventNodeMapById
                                                          \ DOMAIN R.byId)]
         IN  /\ stack' = Append(Observe(below, R, "once", {}, {}, FALSE), now)
             /\ done' = NoEmit
             /\ Store(R, held)
             /\ onceCalls' = IF eventNode.id \in {r.id : r \in onceRegs}
                             THEN MapSet(onceCalls, eventNode.id,
                                         IF eventNode.id \in DOMAIN onceCalls
                                         THEN onceCalls[eventNode.id] + 1 ELSE 1)
                             ELSE onceCalls

\* the loop over the array of the type itself, not over a copy of it
Deliver_NoCopy(below, frame) ==
    Loop(below, [frame EXCEPT !.nodesToExecute =
                    IF frame.type \in DOMAIN _eventNodesMapByType
                    THEN arrays[_eventNodesMapByType[frame.type]] ELSE <<>>])

\* the loop over nodesToExecute, the copy emit made of the array
Deliver(below, frame) == Loop(below, frame)

\* emit(type, ...data): up to the first listener call
emit(type, data) ==
    LET has == type \in DOMAIN _eventNodesMapByType
        eventNodes == IF has THEN arrays[_eventNodesMapByType[type]] ELSE <<>>
        outer == Observe(stack, Registry, "off", {}, {}, TRUE)
        frame == [type |-> type, data |-> data, nodesToExecute |-> eventNodes,
                  i |-> 0, args |-> Undefined, this |-> Undefined,
                  fired |-> <<>>, offedEarly |-> {}, firedEarly |-> {},
                  removed |-> {}, registered |-> {}, nested |-> FALSE,
                  clearedAt |-> 0]
    IN  /\ UNCHANGED <<_id, issued, onceRegs>>
        /\ IF ~has \/ Len(eventNodes) = 0
           THEN /\ stack' = outer
                /\ done' = Ended(frame, "returned")
                /\ UNCHANGED <<_eventNodesMapByType, _eventNodeMapById, arrays, held,
                               onceCalls>>
           ELSE Deliver(outer, frame)

\* the running listener returns: emit's loop goes on
ListenerReturn ==
    /\ stack # <<>>
    /\ Deliver(SubSeq(stack, 1, Len(stack) - 1), stack[Len(stack)])
    /\ lastCall' = NoCall
    /\ UNCHANGED <<_id, issued, onceRegs>>

\* the running listener throws, and emit catches the error and goes on with
\* its loop
ListenerThrow_Caught ==
    /\ stack # <<>>
    /\ Deliver(SubSeq(stack, 1, Len(stack) - 1), stack[Len(stack)])
    /\ lastCall' = Raised
    /\ UNCHANGED <<_id, issued, onceRegs>>

\* the running listener throws, and emit registers a once node again whose
\* listener failed
ListenerThrow_KeepsFailedOnce ==
    LET eventNode == stack[Len(stack)].nodesToExecute[stack[Len(stack)].i]
        R == IF IsOnce(eventNode) THEN _registerEventNode(Registry, eventNode)
             ELSE Registry
    IN  /\ stack # <<>>
        /\ stack' = SubSeq(stack, 1, Len(stack) - 1)
        /\ done' = Ended(stack[Len(stack)], "thrown")
        /\ lastCall' = Raised
        /\ Store(R, held)
        /\ UNCHANGED <<_id, issued, onceRegs, onceCalls>>

\* the running listener throws: emit does not catch, its caller gets the error
ListenerThrow ==
    /\ stack # <<>>
    /\ stack' = SubSeq(stack, 1, Len(stack) - 1)
    /\ done' = Ended(stack[Len(stack)], "thrown")
    /\ lastCall' = Raised
    /\ UNCHANGED <<_id, _eventNodesMapByType, _eventNodeMapById, arrays, held,
                   issued, onceRegs, onceCalls>>

\* the caller's log of the call it makes, if it logs calls of this operation
Log(S, op, args) ==
    lastCall' = IF op \in S.log THEN [op |-> op, args |-> args] ELSE NoCall

\* every call a caller or a running listener can make, in the scope S: the
\* types, the <<listener, target>> pairs and the options it registers with, the
\* data it emits, how deep it nests emit calls, and the operations it logs its calls of
Calls(S) ==
    \/ \E type \in S.types, pair \in S.pairs, options \in S.options :
          /\ OnCall(type, pair[1], pair[2], options)
          /\ Log(S, "on", <<type, pair[1], pair[2], options>>)
    \/ \E type \in S.types, pair \in S.pairs, options \in S.options :
          /\ once(type, pair[1], pair[2], options)
          /\ Log(S, "once", <<type, pair[1], pair[2], options>>)
    \/ \E x \in OffStrings :
          /\ OffById(x)
          /\ Log(S, "off", <<x>>)
    \/ \E type \in Types, pair \in S.pairs :
          /\ OffByIdentity(type, pair[1], pair[2])
          /\ Log(S, "off", <<type, pair[1], pair[2]>>)
    \/ \E n \in 0..(MaxId - 1) :
          /\ offEventFunction(IdString(n))
          /\ Log(S, "offEventFunction", <<IdString(n)>>)
    \/ \E type \in Types :
          /\ offAll(<<type>>)
          /\ Log(S, "offAll", <<type>>)
    \/ /\ offAll(<<>>)
       /\ Log(S, "offAll", <<>>)
    \/ \E type \in Types, data \in S.data :
          /\ Len(stack) < S.depth
          /\ emit(type, data)
          /\ Log(S, "emit", <<type, data>>)

\* two event keys, once and plain nodes, one listener and no target: every
\* node matches every identity-based off of its type
Reentrant == [types |-> Types, pairs |-> {<<"f", Undefined>>},
              options |-> {Undefined, [once |-> TRUE]}, data |-> Data,
              depth |-> MaxDepth, log |-> {}]

Next ==
    \/ Calls(Reentrant)
    \/ ListenerReturn
    \/ ListenerThrow

Spec == Init /\ [][Next]_vars

\* plain nodes of one event key that differ in listener and target, another
\* key nothing is registered for, and getEventNodes: the calls that look a node
\* up find it, or find none
Lookup == [types |-> {"1"},
           pairs |-> {<<"f", Undefined>>, <<"f", TargetObj>>, <<"g", Undefined>>},
           options |-> {Undefined}, data |-> {"Alice"}, depth |-> 1, log |-> {}]

NextLookup ==
    \/ Calls(Lookup)
    \/ \E type \in Types : GetEventNodes(type) /\ Log(Lookup, "getEventNodes", <<type>>)
    \/ ListenerReturn
    \/ ListenerThrow

SpecLookup == Init /\ [][NextLookup]_vars

\* a caller that logs its calls of off: plain nodes of the event key "1", which
\* is an id at once, that differ in listener and target, so that a removal by
\* identity has duplicates and near matches to tell apart
Identity == [types |-> {"1"},
             pairs |-> {<<"f", Undefined>>, <<"f", TargetObj>>, <<"g", Undefined>>},
             options |-> {Undefined}, data |-> {"Alice"}, depth |-> 1,
             log |-> {"off"}]

NextIdentity ==
    \/ Calls(Identity)
    \/ ListenerReturn
    \/ ListenerThrow

SpecIdentity == Init /\ [][NextIdentity]_vars

\* a caller that logs its calls of offAll: plain and once nodes of both event
\* keys, so that offAll of one key has nodes of the other to leave alone
Clearing == [types |-> Types, pairs |-> {<<"f", Undefined>>},
             options |-> {Undefined, [once |-> TRUE]}, data |-> {"Alice"}, depth |-> 1,
             log |-> {"offAll"}]

NextClearing ==
    \/ Calls(Clearing)
    \/ ListenerReturn
    \/ ListenerThrow

SpecClearing == Init /\ [][NextClearing]_vars

\* plain nodes of one event key registered without a target, with an object
\* and with 0 as target
Binding == [types |-> {"work"},
            pairs |-> {<<"f", Undefined>>, <<"f", TargetObj>>, <<"f", Zero>>},
            options |-> {Undefined}, data |-> Data, depth |-> 1, log |-> {}]

NextBinding ==
    \/ Calls(Binding)
    \/ ListenerReturn
    \/ ListenerThrow

SpecBinding == Init /\ [][NextBinding]_vars

\* a caller that logs its calls of on and once: nodes of one event key
\* registered with no options, with once false, with once true, and with an
\* option other than once
Options == [types |-> {"work"}, pairs |-> {<<"f", Undefined>>},
            options |-> {Undefined, [once |-> FALSE], [once |-> TRUE], [extra |-> "x"]},
            data |-> {"Alice"}, depth |-> 1, log |-> {"on", "once"}]

NextOptions ==
    \/ Calls(Options)
    \/ ListenerReturn
    \/ ListenerThrow

SpecOptions == Init /\ [][NextOptions]_vars

\* listeners that return and do not call emit: plain and once nodes of one
\* event key, registered and removed also by running listeners
Flat == [types |-> {"work"}, pairs |-> {<<"f", Undefined>>},
         options |-> {Undefined, [once |-> TRUE]}, data |-> {"Alice"}, depth |-> 1,
         log |-> {}]

NextFlat ==
    \/ Calls(Flat)
    \/ ListenerReturn

\* every listener returns in the end
SpecFlat == Init /\ [][NextFlat]_vars /\ WF_vars(ListenerReturn)

\* callers that go on after an emit call ended by an error, and call emit
\* again: plain and once nodes of two event keys, listeners that raise, remove
\* nodes and call emit themselves
Aborted == [types |-> Types, pairs |-> {<<"f", Undefined>>},
            options |-> {Undefined, [once |-> TRUE]}, data |-> {"Alice"},
            depth |-> MaxDepth, log |-> {"emit"}]

NextAborted ==
    \/ Calls(Aborted)
    \/ ListenerReturn
    \/ ListenerThrow

SpecAborted == Init /\ [][NextAborted]_vars

\* ------------------------------------------------------------------ properties
\* the array of a type: what the map's entry refers to
Bucket(t) == arrays[_eventNodesMapByType[t]]
\* the positions at which an array holds the node
Places(arr, node) == {p \in 1..Len(arr) : arr[p] = node}
\* the place of an id in the order of registration
Rank(id) == CHOOSE k \in 1..Len(issued) : issued[k] = id
\* the ids of a sequence are in the order of registration
Ascending(ids) == \A p, q \in 1..Len(ids) : p < q => Rank(ids[p]) < Rank(ids[q])
\* a listener is running
InListener == stack # <<>>
Top == stack[Len(stack)]
\* the node whose listener a call in progress is running
Current(frame) == frame.nodesToExecute[frame.i]

\* C1: the two indexes agree in every state, those a running listener sees
\* included: a node is in the array of type t exactly if _eventNodeMapById
\* holds it under its id and its type is t, it is in no other array, and it is
\* there once.
C1_DualIndex ==
    /\ \A t \in DOMAIN _eventNodesMapByType : \A p \in 1..Len(Bucket(t)) :
          LET node == Bucket(t)[p]
          IN  /\ node.type = t
              /\ node.id \in DOMAIN _eventNodeMapById
              /\ _eventNodeMapById[node.id] = node
              /\ Places(Bucket(t), node) = {p}
    /\ \A k \in DOMAIN _eventNodeMapById :
          LET node == _eventNodeMapById[k]
          IN  /\ node.id = k
              /\ node.type \in DOMAIN _eventNodesMapByType
              /\ Cardinality(Places(Bucket(node.type), node)) = 1
              /\ \A t \in DOMAIN _eventNodesMapByType \ {node.type} :
                    Places(Bucket(t), node) = {}

\* a listener runs after a once node was unregistered by emit and an offAll
\* removed a whole type, while nodes of another type are registered
C1_Witness ==
    /\ InListener
    /\ IsOnce(Current(Top))
    /\ Top.clearedAt # 0
    /\ _eventNodeMapById # EmptyMap

\* C2: the k-th id on/once returns is the decimal string of k - 1, so no id
\* is returned twice, whatever was removed in between, and no two registered
\* nodes share an id.
C2_IdsUnique ==
    /\ \A k \in 1..Len(issued) : issued[k] = IdString(k - 1)
    /\ \A k, l \in 1..Len(issued) : issued[k] = issued[l] => k = l
    /\ \A t, u \in DOMAIN _eventNodesMapByType :
          \A p \in 1..Len(Bucket(t)), q \in 1..Len(Bucket(u)) :
             Bucket(t)[p].id = Bucket(u)[q].id => t = u /\ p = q

\* the third id was returned after the nodes with the first two were removed:
\* its node is alone in an array created for it
C2_Witness ==
    /\ issued = <<"0", "1", "2">>
    /\ DOMAIN _eventNodeMapById = {"2"}
    /\ \E t \in DOMAIN _eventNodesMapByType : _eventNodesMapByType[t] = "2"

\* C3: every array is in the order of registration, so a removal keeps the
\* order of the others and a registration comes last, and every emit call
\* calls the listeners in the order of registration.
C3_Order ==
    /\ \A t \in DOMAIN _eventNodesMapByType :
          Ascending([p \in 1..Len(Bucket(t)) |-> Bucket(t)[p].id])
    /\ \A k \in 1..Len(stack) : Ascending(stack[k].fired)
    /\ done # NoEmit => Ascending(done.fired)

\* an emit call has called the first and the third node, in this order, after
\* the second was removed
C3_Witness ==
    /\ InListener
    /\ Top.fired = <<"0", "2">>
    /\ Ids(Top.nodesToExecute) = {"0", "2"}
    /\ "1" \notin DOMAIN _eventNodeMapById
    /\ Top.type \in DOMAIN _eventNodesMapByType

\* the emit calls in progress and the one that just ended
InProgress == {stack[k] : k \in 1..Len(stack)}
Seen == InProgress \cup (IF done = NoEmit THEN {} ELSE {done})
\* the ids of the snapshot of a call, in its order
SnapshotIds(call) == [p \in 1..Len(call.nodesToExecute) |-> call.nodesToExecute[p].id]
Range(seq) == {seq[p] : p \in 1..Len(seq)}
\* the once registrations an emit call had in its snapshot and no off or offAll
\* removed before their turn
OnceDue(call) ==
    {r \in onceRegs : r.id \in Ids(call.nodesToExecute) \ call.offedEarly}
\* in neither index
Absent(id) ==
    /\ id \notin DOMAIN _eventNodeMapById
    /\ \A t \in DOMAIN _eventNodesMapByType : id \notin Ids(Bucket(t))
TimesCalled(id) == IF id \in DOMAIN onceCalls THEN onceCalls[id] ELSE 0

\* C4 as stated: when an emit call made by a caller that is no listener ends,
\* every once registration of its snapshot that no off or offAll removed has
\* been called by it, exactly once in total, and is in neither index.
C4_AsStated ==
    (done # NoEmit /\ stack = <<>>) =>
        \A r \in OnceDue(done) :
            /\ r.id \in Range(done.fired)
            /\ TimesCalled(r.id) = 1
            /\ Absent(r.id)

\* C4, amended: the listener of a once registration is called at most once in
\* total, with the arguments of the emit that calls it; when an emit call
\* returns during which no listener called emit, every once registration of its
\* snapshot that no off or offAll removed has been called by it, exactly once in
\* total, and is in neither index.
C4_Once ==
    /\ \A r \in onceRegs : TimesCalled(r.id) <= 1
    /\ \A call \in InProgress : call.args = call.data
    /\ (done # NoEmit /\ done.outcome = "returned" /\ ~done.nested) =>
          \A r \in OnceDue(done) :
              /\ r.id \in Range(done.fired)
              /\ TimesCalled(r.id) = 1
              /\ Absent(r.id)

\* an emit call returned that did not have in its snapshot a once registration
\* of its type which an earlier emit call had called
C4_Witness ==
    /\ done # NoEmit
    /\ done.outcome = "returned"
    /\ done.fired # <<>>
    /\ \E r \in onceRegs :
          /\ r.type = done.type
          /\ TimesCalled(r.id) = 1
          /\ r.id \notin Ids(done.nodesToExecute) \cup done.registered

\* C5: while the listener of a once node runs, the node is in neither index:
\* getEventNodes of its type does not return it and off with its id, like its
\* unsubscribe function, changes nothing.
C5_OnceRemovedFirst ==
    \A call \in InProgress :
        IsOnce(Current(call)) =>
            /\ Absent(Current(call).id)
            /\ Current(call) \notin
                  Range(ArrayOf(Registry, getEventNodes(Registry, call.type)))
            /\ off(Registry, <<Current(call).id>>) = Registry
            /\ _offById(Registry, Current(call).id) = Registry

\* the listener of a once node runs while other nodes of its type are registered
C5_Witness ==
    /\ InListener
    /\ IsOnce(Current(Top))
    /\ Top.type \in DOMAIN _eventNodesMapByType

\* the nodes of its snapshot an emit call has passed and not called
Skipped(call) ==
    {SnapshotIds(call)[p] : p \in 1..call.i} \ Range(call.fired)

\* C6 as stated: once offAll() or offAll(t) was called during an emit of t, that
\* emit calls no further listener, and it has called the listener of every
\* node of its snapshot before the one that made the call.
C6_AsStated ==
    \A call \in Seen :
        call.clearedAt # 0 =>
            /\ call.i = call.clearedAt
            /\ Skipped(call) = {}

\* C6, amended: once offAll() or offAll(t) was called during an emit of t, that
\* emit calls no further listener, and it has called the listener of every
\* node of its snapshot before the one that made the call, except those that
\* were removed before their turn.
C6_ReentrantOffAll ==
    \A call \in Seen :
        call.clearedAt # 0 =>
            /\ call.i = call.clearedAt
            /\ Range(call.fired) \cap Ahead(call) = {}
            /\ Skipped(call) \subseteq call.offedEarly \cup call.firedEarly
            /\ Skipped(call) \subseteq call.removed

\* an emit call returned during which offAll was called by the second of three
\* listeners: the first two were called, the third was not
C6_Witness ==
    /\ done # NoEmit
    /\ done.outcome = "returned"
    /\ done.clearedAt = 2
    /\ Len(done.nodesToExecute) = 3
    /\ Len(done.fired) = 2

\* the subsequence of the ids of a sequence that are not in a set
Without(ids, set) ==
    LET F[k \in 0..Len(ids)] ==
            IF k = 0 THEN <<>>
            ELSE IF ids[k] \in set THEN F[k - 1] ELSE Append(F[k - 1], ids[k])
    IN  F[Len(ids)]

\* C7: during an emit call in which no listener calls emit, the listeners
\* called so far are those of the nodes of the snapshot up to the loop's
\* position, in order and once each, without the nodes an off or offAll call
\* removed before their turn; when the call returns these are all the nodes of
\* the snapshot without the nodes so removed.
C7_Delivery ==
    /\ \A call \in InProgress :
          ~call.nested =>
              /\ call.firedEarly = {}
              /\ call.fired = Without(SubSeq(SnapshotIds(call), 1, call.i),
                                      call.offedEarly)
    /\ (done # NoEmit /\ done.outcome = "returned" /\ ~done.nested) =>
          /\ done.firedEarly = {}
          /\ done.fired = Without(SnapshotIds(done), done.offedEarly)

\* an emit call returned, with no emit call during it, that called two
\* listeners and passed a node that a listener had removed
C7_Witness ==
    /\ done # NoEmit
    /\ done.outcome = "returned"
    /\ ~done.nested
    /\ done.offedEarly # {}
    /\ Len(done.fired) >= 2
    /\ done.fired # SnapshotIds(done)

\* C8 as stated: a node registered for type t during an emit of t is not
\* called by that emit, and is registered when the emit has returned.
C8_AsStated ==
    /\ \A call \in Seen : Range(call.fired) \cap call.registered = {}
    /\ (done # NoEmit /\ done.outcome = "returned") =>
          done.registered \subseteq DOMAIN _eventNodeMapById

\* C8, amended: a node registered for type t during an emit of t is not called
\* by that emit; unless a call removed it, it is registered when the emit has
\* ended.  Every node registered for the type of an emit call is in that call's
\* snapshot or was registered during it, and a call that returns has called
\* every node of its snapshot that was not removed before its turn.
C8_SnapshotIsolation ==
    /\ \A call \in Seen :
          /\ Range(call.fired) \cap call.registered = {}
          /\ call.registered \cap Ids(call.nodesToExecute) = {}
          /\ call.registered \ call.removed \subseteq DOMAIN _eventNodeMapById
          /\ call.type \in DOMAIN _eventNodesMapByType =>
                Ids(Bucket(call.type)) \subseteq
                    Ids(call.nodesToExecute) \cup call.registered
    /\ (done # NoEmit /\ done.outcome = "returned") =>
          done.fired = Without(SnapshotIds(done), done.offedEarly \cup done.firedEarly)

\* a listener that an emit call of a type called has registered a node for
\* that type and then called emit for it: the inner emit call called the new
\* node's listener and has returned, the outer one has not called it
C8_Witness ==
    /\ InListener
    /\ done # NoEmit
    /\ done.outcome = "returned"
    /\ done.type = Top.type
    /\ Range(done.fired) \cap Top.registered # {}
    /\ Top.registered \subseteq DOMAIN _eventNodeMapById

\* the ids of the nodes a type has in a registry, in order
IdsOfType(byType, arrs, t) ==
    IF t \in DOMAIN byType
    THEN [p \in 1..Len(arrs[byType[t]]) |-> arrs[byType[t]][p].id]
    ELSE <<>>

\* C9: a call of the function on or once returned for an id removes the node
\* with that id from both indexes, if it is registered, and changes nothing
\* else: every other node stays where it is, also one of the same type,
\* listener and target, and the counter keeps its value.  A call for an id that
\* is not registered changes nothing.
C9_Unsubscribe ==
    [][\A n \in 0..(MaxId - 1) :
          offEventFunction(IdString(n)) =>
              /\ DOMAIN _eventNodeMapById' = DOMAIN _eventNodeMapById \ {IdString(n)}
              /\ \A k \in DOMAIN _eventNodeMapById' :
                    _eventNodeMapById'[k] = _eventNodeMapById[k]
              /\ \A t \in Types :
                    IdsOfType(_eventNodesMapByType', arrays', t) =
                        Without(IdsOfType(_eventNodesMapByType, arrays, t), {IdString(n)})
              /\ _id' = _id
              /\ [k \in 1..Len(stack') |-> stack'[k].fired]
                    = [k \in 1..Len(stack) |-> stack[k].fired]]_vars

\* of three nodes of one type with the same listener and target the second is
\* gone, the first and the third are registered
C9_Witness ==
    /\ issued = <<"0", "1", "2">>
    /\ onceRegs = {}
    /\ DOMAIN _eventNodeMapById = {"0", "2"}
    /\ \E t \in DOMAIN _eventNodesMapByType :
          /\ IdsOfType(_eventNodesMapByType, arrays, t) = <<"0", "2">>
          /\ OffMatches(Bucket(t)[1], Bucket(t)[2].listener, Bucket(t)[2].target)

\* what a call leaves as it is when it finds nothing: the counter, both
\* indexes, every array, and the listeners called
NothingDone ==
    /\ _id' = _id
    /\ _eventNodesMapByType' = _eventNodesMapByType
    /\ _eventNodeMapById' = _eventNodeMapById
    /\ \A t \in Types :
          IdsOfType(_eventNodesMapByType', arrays', t)
              = IdsOfType(_eventNodesMapByType, arrays, t)
    /\ [k \in 1..Len(stack') |-> stack'[k].fired]
          = [k \in 1..Len(stack) |-> stack[k].fired]

\* no node of the type has this listener and this target
NoMatch(type, listener, targetArg) ==
    \A id \in DOMAIN _eventNodeMapById :
        LET node == _eventNodeMapById[id]
        IN  ~(/\ node.type = type
              /\ node.listener = listener
              /\ node.target = DefaultNull(targetArg))

\* C10: off with an id that is not registered, off with a type, listener and
\* target no node has, and offAll, emit and getEventNodes of a type without
\* nodes change neither the counter nor an index and call no listener; that
\* emit returns, and that getEventNodes returns an empty array.
C10_NotFound ==
    [][/\ \A x \in OffStrings :
             (x \notin DOMAIN _eventNodeMapById /\ OffById(x)) => NothingDone
       /\ \A type \in Types, pair \in Lookup.pairs :
             (NoMatch(type, pair[1], pair[2]) /\ OffByIdentity(type, pair[1], pair[2]))
                 => NothingDone
       /\ \A type \in Types :
             (type \notin DOMAIN _eventNodesMapByType /\ offAll(<<type>>)) => NothingDone
       /\ \A type \in Types, data \in Lookup.data :
             (type \notin DOMAIN _eventNodesMapByType /\ emit(type, data))
                 => /\ NothingDone
                    /\ done'.outcome = "returned"
                    /\ done'.fired = <<>>
                    /\ Len(stack') = Len(stack)
       /\ \A type \in Types :
             (type \notin DOMAIN _eventNodesMapByType /\ GetEventNodes(type))
                 => /\ NothingDone
                    /\ ArrayOf([arrays |-> arrays'], held'.ref) = <<>>]_vars

\* nodes are registered for one type; getEventNodes of the other type returned
\* an empty array, and then emit of that type returned without calling a
\* listener
C10_Witness ==
    /\ _eventNodeMapById # EmptyMap
    /\ held # NoHeld
    /\ held.type \notin DOMAIN _eventNodesMapByType
    /\ ArrayOf(Registry, held.ref) = <<>>
    /\ done # NoEmit
    /\ done.type = held.type
    /\ done.outcome = "returned"
    /\ done.fired = <<>>

\* the ids of the registered nodes of a type that have this listener and this
\* target; an omitted target stands for a registration without a target
Matching(type, listener, targetArg) ==
    {id \in DOMAIN _eventNodeMapById :
        /\ _eventNodeMapById[id].type = type
        /\ _eventNodeMapById[id].listener = listener
        /\ _eventNodeMapById[id].target = (IF targetArg = Undefined THEN Null ELSE targetArg)}
\* the id registered first
Earliest(ids) == CHOOSE id \in ids : \A other \in ids : Rank(id) <= Rank(other)
\* a step that removes exactly the nodes with these ids and changes nothing else
RemovesExactly(gone) ==
    /\ DOMAIN _eventNodeMapById' = DOMAIN _eventNodeMapById \ gone
    /\ \A k \in DOMAIN _eventNodeMapById' : _eventNodeMapById'[k] = _eventNodeMapById[k]
    /\ \A t \in Types :
          IdsOfType(_eventNodesMapByType', arrays', t) =
              Without(IdsOfType(_eventNodesMapByType, arrays, t), gone)
    /\ _id' = _id

\* (the log holds an off call with a type and a listener as three arguments,
\* the third being undefined where the target was omitted)
\* C11: off(type, listener, target) removes exactly one node, the one registered
\* first among the registered nodes of the type whose listener and target both
\* equal the arguments (an omitted target equals no target only), and nothing
\* if there is none: later duplicates and nodes with the same listener and
\* another target stay, in their order.
C11_IdentityOff ==
    [][(lastCall'.op = "off" /\ Len(lastCall'.args) = 3) =>
          LET m == Matching(lastCall'.args[1], lastCall'.args[2], lastCall'.args[3])
          IN  RemovesExactly(IF m = {} THEN {} ELSE {Earliest(m)})]_vars

\* off("1", f) was called when f was registered for "1" without a target, then
\* with a target, then without a target again: the first is gone, the other two
\* are registered
C11_Witness ==
    /\ lastCall = [op |-> "off", args |-> <<"1", "f", Undefined>>]
    /\ issued = <<"0", "1", "2">>
    /\ IdsOfType(_eventNodesMapByType, arrays, "1") = <<"1", "2">>
    /\ _eventNodeMapById["1"].listener = "f"
    /\ _eventNodeMapById["1"].target = TargetObj
    /\ _eventNodeMapById["2"].listener = "f"
    /\ _eventNodeMapById["2"].target = Null

\* the ids a step removes
Gone == DOMAIN _eventNodeMapById \ DOMAIN _eventNodeMapById'

\* C12: off with one string x removes the node with id x if it is registered
\* and nothing otherwise, also when x is an event key that has nodes; off with
\* more arguments removes no node but one of the type, listener and target
\* given, also when its first argument, "1", is the id of a registered node.
C12_OffShape ==
    [][/\ (lastCall'.op = "off" /\ Len(lastCall'.args) = 1) =>
             RemovesExactly({lastCall'.args[1]} \cap DOMAIN _eventNodeMapById)
       /\ (lastCall'.op = "off" /\ Len(lastCall'.args) = 3) =>
             /\ Gone \subseteq
                   Matching(lastCall'.args[1], lastCall'.args[2], lastCall'.args[3])
             /\ Cardinality(Gone) <= 1]_vars

\* off("1") was called while the event key "1" had three nodes: the node with
\* the id "1" is gone, the other two nodes of "1" are registered
C12_Witness ==
    /\ lastCall = [op |-> "off", args |-> <<"1">>]
    /\ issued = <<"0", "1", "2">>
    /\ IdsOfType(_eventNodesMapByType, arrays, "1") = <<"0", "2">>
    /\ DOMAIN _eventNodeMapById = {"0", "2"}

\* the ids of the registered nodes of a type
LiveOfType(t) == {id \in DOMAIN _eventNodeMapById : _eventNodeMapById[id].type = t}

\* C13: no type's entry is an empty array; getEventNodes of a type without
\* registered nodes returns an empty array; getStatusInfo lists exactly the
\* types that have registered nodes, each once and with the number of its
\* registered nodes as count, and reports that nothing is registered exactly
\* when no node is.
C13_EmptyBucketCleanup ==
    /\ \A t \in DOMAIN _eventNodesMapByType : Len(Bucket(t)) > 0
    /\ \A t \in Types :
          LiveOfType(t) = {} =>
              /\ ArrayOf(Registry, getEventNodes(Registry, t)) = <<>>
              /\ \A e \in getStatusInfo(Registry).types : e.type # t
    /\ {e.type : e \in getStatusInfo(Registry).types} = {t \in Types : LiveOfType(t) # {}}
    /\ \A e \in getStatusInfo(Registry).types :
          /\ e.count = Cardinality(LiveOfType(e.type))
          /\ {e.nodes[p].id : p \in 1..Len(e.nodes)} = LiveOfType(e.type)
          /\ \A f \in getStatusInfo(Registry).types : f.type = e.type => f = e
    /\ getStatusInfo(Registry).registered = (_eventNodeMapById # EmptyMap)

\* emit has unregistered the last node of its type, a once node, and runs its
\* listener, while the other type has nodes: the status lists that type alone
C13_Witness ==
    /\ InListener
    /\ IsOnce(Current(Top))
    /\ Top.removed = {Current(Top).id}
    /\ Top.type \notin DOMAIN _eventNodesMapByType
    /\ Cardinality(getStatusInfo(Registry).types) = 1
    /\ \E e \in getStatusInfo(Registry).types : e.type # Top.type /\ e.count = 2

\* C14: offAll(t) removes every node of type t from both indexes, and the
\* type's entry, and leaves the nodes of every other type, their order and the
\* counter as they are; offAll() leaves both indexes empty and the counter as
\* it is.
C14_OffAllScope ==
    [][/\ (lastCall'.op = "offAll" /\ Len(lastCall'.args) = 1) =>
             /\ RemovesExactly(LiveOfType(lastCall'.args[1]))
             /\ lastCall'.args[1] \notin DOMAIN _eventNodesMapByType'
             /\ \A t \in DOMAIN _eventNodesMapByType \ {lastCall'.args[1]} :
                   /\ t \in DOMAIN _eventNodesMapByType'
                   /\ arrays'[_eventNodesMapByType'[t]] = Bucket(t)
       /\ (lastCall'.op = "offAll" /\ Len(lastCall'.args) = 0) =>
             /\ _eventNodesMapByType' = EmptyMap
             /\ _eventNodeMapById' = EmptyMap
             /\ _id' = _id]_vars

\* offAll("work") was called by a listener of "work" when "work" had one node
\* and "1" had two: the two nodes of "1" are registered, in their order, and
\* the counter is 3
C14_Witness ==
    /\ lastCall = [op |-> "offAll", args |-> <<"work">>]
    /\ InListener
    /\ Top.type = "work"
    /\ Top.removed # {}
    /\ _id = 3
    /\ DOMAIN _eventNodesMapByType = {"1"}
    /\ Len(Bucket("1")) = 2
    /\ Ids(Bucket("1")) = DOMAIN _eventNodeMapById

\* the nodes of its snapshot before the one an emit call is at
Before(call) == {SnapshotIds(call)[p] : p \in 1..(call.i - 1)}

\* C15 as stated: when an emit call has ended by the error of a listener, it
\* has called the listener of every node of its snapshot before the failing
\* one, and of none after it.
C15_AsStated ==
    done.outcome = "thrown" =>
        /\ Before(done) \subseteq Range(done.fired)
        /\ Range(done.fired) \cap Ahead(done) = {}

\* C15, amended: when a listener raises an error, the emit call that called it
\* ends at once and its caller has control, with the error; no listener was
\* called by it after the failing one, which is the last it called; of the
\* nodes of its snapshot before the failing one it has called all but those
\* that were removed before their turn; the registry is as the failing
\* listener left it.
C15_ListenerFailure ==
    [][lastCall'.op = "raise" =>
          /\ stack # <<>>
          /\ stack' = SubSeq(stack, 1, Len(stack) - 1)
          /\ done'.outcome = "thrown"
          /\ done'.fired = Top.fired
          /\ done'.fired[Len(done'.fired)] = Current(Top).id
          /\ Range(done'.fired) \cap Ahead(done') = {}
          /\ Before(done') \subseteq
                Range(done'.fired) \cup done'.offedEarly \cup done'.firedEarly
          /\ UNCHANGED <<_id, _eventNodesMapByType, _eventNodeMapById, arrays,
                         onceCalls>>]_vars

\* the second of three listeners has raised an error: the emit call has ended
\* having called the first two, and the third node is registered
C15_Witness ==
    /\ lastCall = Raised
    /\ done.outcome = "thrown"
    /\ Len(done.nodesToExecute) = 3
    /\ done.i = 2
    /\ Len(done.fired) = 2
    /\ done.nodesToExecute[3].id \in DOMAIN _eventNodeMapById

\* a target was supplied at registration: the node's target is neither null
\* nor undefined
Supplied(node) == node.target # Null /\ node.target # Undefined

\* C16 as stated: a listener runs bound to the target of its node if one was
\* supplied, also a falsy one, and unbound if none was, and with the arguments
\* of the emit call.
C16_AsStated ==
    \A call \in InProgress :
        /\ Supplied(Current(call)) => call.this = Current(call).target
        /\ ~Supplied(Current(call)) => call.this = Undefined
        /\ call.args = call.data

\* the listener of a node registered with the target 0 runs unbound
C16_Witness ==
    /\ InListener
    /\ Current(Top).target = Zero
    /\ Top.this = Undefined
    /\ Top.args = Top.data

\* options with once set to true, the other options as they are
WithOnce(options) ==
    [k \in (IF options = Undefined THEN {} ELSE DOMAIN options) \cup {"once"} |->
        IF k = "once" THEN TRUE ELSE options[k]]
\* the node registered last
Newest == _eventNodeMapById[issued[Len(issued)]]

\* C17: a call once(type, listener, target, options) is a call
\* on(type, listener, target, options') with options' the options with once
\* set to true, and the other way round: the same node under the same id in
\* the same place, the same id returned, the same counter.  The node is a once
\* node also when options said once: false, and has the other options.
C17_OnceIsOn ==
    [][/\ lastCall'.op = "once" =>
             /\ OnCall(lastCall'.args[1], lastCall'.args[2], lastCall'.args[3],
                       WithOnce(lastCall'.args[4]))
             /\ IsOnce(Newest')
             /\ Newest'.options = WithOnce(lastCall'.args[4])
       /\ (lastCall'.op = "on" /\ lastCall'.args[4] = WithOnce(lastCall'.args[4])) =>
             once(lastCall'.args[1], lastCall'.args[2], lastCall'.args[3],
                  lastCall'.args[4])]_vars

\* once was called with an option other than once and then with
\* { once: false }: both nodes are once nodes, the first has the other option
C17_Witness ==
    /\ lastCall.op = "once"
    /\ lastCall.args[4] = [once |-> FALSE]
    /\ issued = <<"0", "1">>
    /\ DOMAIN _eventNodeMapById = {"0", "1"}
    /\ _eventNodeMapById["0"].options = [once |-> TRUE, extra |-> "x"]
    /\ _eventNodeMapById["1"].options = [once |-> TRUE]
    /\ IsOnce(Newest)

\* the contents of the array the last getEventNodes call returned, as they are
\* now, and what getEventNodes of the same type returns now
HeldNow == ArrayOf(Registry, held.ref)
FreshNow == ArrayOf(Registry, getEventNodes(Registry, held.type))

\* C18 as stated: the array a getEventNodes call returned has, after any later
\* call, the contents of the array getEventNodes of that type returns then.
C18_AsStated == held # NoHeld => HeldNow = FreshNow

\* after offAll the array that getEventNodes returned before still holds a
\* node, which is in neither index, while getEventNodes returns an empty array
C18_Witness ==
    /\ held # NoHeld
    /\ _eventNodeMapById = EmptyMap
    /\ Len(HeldNow) = 1
    /\ FreshNow = <<>>

\* an emit call has called no more listeners than its snapshot has nodes, and
\* none of a node registered during it
Bounded(call) ==
    /\ Len(call.fired) <= Len(call.nodesToExecute)
    /\ call.i <= Len(call.nodesToExecute)
    /\ Range(call.fired) \subseteq Ids(call.nodesToExecute)
    /\ \A p, q \in 1..Len(call.fired) : call.fired[p] = call.fired[q] => p = q

\* C19: where every listener returns and none calls emit, an emit call calls at
\* most as many listeners as the type had nodes when it was called, whatever
\* the listeners register meanwhile, and it returns.  A node registered during
\* it, also by the listener of a once node for itself, has a new id, is not
\* called by it and is registered when it returns unless it was removed; the
\* once node was called once and is gone.
C19_Termination ==
    /\ [](\A call \in Seen :
            /\ Bounded(call)
            /\ call.registered \cap Ids(call.nodesToExecute) = {}
            /\ \A id \in call.registered, old \in Ids(call.nodesToExecute) :
                  Rank(id) > Rank(old))
    /\ [](done.outcome = "returned" =>
            /\ done.registered \ done.removed \subseteq DOMAIN _eventNodeMapById
            /\ \A r \in OnceDue(done) :
                  /\ Cardinality({p \in 1..Len(done.fired) : done.fired[p] = r.id}) = 1
                  /\ Absent(r.id))
    /\ (InListener ~> (stack = <<>> /\ done.outcome = "returned"))

\* an emit call has returned that called the listener of the one node of its
\* type, a once node, which registered a once node of the same listener during
\* the call: that node is the one node registered now, with a new id
C19_Witness ==
    /\ stack = <<>>
    /\ done.outcome = "returned"
    /\ Len(done.nodesToExecute) = 1
    /\ IsOnce(done.nodesToExecute[1])
    /\ done.fired = <<done.nodesToExecute[1].id>>
    /\ Cardinality(done.registered) = 1
    /\ DOMAIN _eventNodeMapById = done.registered
    /\ \A id \in done.registered :
          /\ IsOnce(_eventNodeMapById[id])
          /\ _eventNodeMapById[id].listener = done.nodesToExecute[1].listener
          /\ id # done.nodesToExecute[1].id

\* the ids of the registrations made by once, or by on with { once: true }
OnceIds == {r.id : r \in onceRegs}
\* how often an id is among the listeners an emit call called
Times(call, id) == Cardinality({p \in 1..Len(call.fired) : call.fired[p] = id})

\* C20: the listener of a once registration is called at most once in all,
\* whatever is called in whatever nesting: at most once by one emit call, not
\* by two emit calls of which one runs inside the other, and not by an emit
\* call that has ended and one that goes on.
C20_OnceAtMostOnce ==
    \A id \in OnceIds :
        /\ TimesCalled(id) <= 1
        /\ \A k \in 1..Len(stack) : Times(stack[k], id) <= 1
        /\ \A k, l \in 1..Len(stack) :
              (k < l /\ Times(stack[k], id) > 0) => Times(stack[l], id) = 0
        /\ done # NoEmit =>
              /\ Times(done, id) <= 1
              /\ \A k \in 1..Len(stack) :
                    Times(done, id) > 0 => Times(stack[k], id) = 0

\* an emit call goes on after an emit call of the same type made by one of
\* its listeners: that one has called the listener of a once node which is in
\* both snapshots, and this one has passed the node without calling it
C20_Witness ==
    /\ Len(stack) = 1
    /\ Top.nested
    /\ \E id \in OnceIds :
          /\ id \in Skipped(Top)
          /\ id \in Top.firedEarly
          /\ id \notin Top.offedEarly
          /\ TimesCalled(id) = 1

\* the two indexes hold the same nodes: every node of an array is the entry
\* of its id, every entry is in the array of its type, once
IndexesAgree ==
    /\ \A t \in DOMAIN _eventNodesMapByType : \A p \in 1..Len(Bucket(t)) :
          /\ Bucket(t)[p].id \in DOMAIN _eventNodeMapById
          /\ _eventNodeMapById[Bucket(t)[p].id] = Bucket(t)[p]
          /\ Bucket(t)[p].type = t
    /\ \A k \in DOMAIN _eventNodeMapById :
          /\ _eventNodeMapById[k].type \in DOMAIN _eventNodesMapByType
          /\ Cardinality(Places(Bucket(_eventNodeMapById[k].type),
                                _eventNodeMapById[k])) = 1
\* the ids of a sequence that are in a set, in the order of the sequence
Restrict(ids, set) == Without(ids, Range(ids) \ set)
\* the once nodes of its snapshot whose listeners an emit call has called
OnceFired(call) ==
    {call.nodesToExecute[p].id : p \in {q \in 1..Len(call.nodesToExecute) :
        /\ IsOnce(call.nodesToExecute[q])
        /\ call.nodesToExecute[q].id \in Range(call.fired)}}
\* the nodes of its snapshot an emit call has reached, in order
Reached(call) == SubSeq(SnapshotIds(call), 1, call.i)
\* the nodes after the failing one in the snapshot of the emit call that just
\* ended by an error, that are registered
Survivors == Ahead(done) \cap DOMAIN _eventNodeMapById
\* the step is a call of emit for the type of the emit call that just ended
\* by an error
EmitAgain ==
    /\ done.outcome = "thrown"
    /\ lastCall'.op = "emit"
    /\ lastCall'.args[1] = done.type

\* C21 as stated: when an emit call has ended by the error of a listener, the
\* indexes agree, the failing node if it is a once node and the once nodes
\* called before it are in neither index, and every node after the failing one
\* in the snapshot is registered and in the snapshot of the next emit call of
\* the type.
C21_AsStated ==
    /\ [](done.outcome = "thrown" =>
            /\ IndexesAgree
            /\ \A id \in OnceFired(done) : Absent(id)
            /\ Ahead(done) \subseteq DOMAIN _eventNodeMapById)
    /\ [][EmitAgain =>
            /\ Len(stack') = Len(stack) + 1
            /\ Ahead(done) \subseteq Ids(stack'[Len(stack')].nodesToExecute)]_vars

\* C21, amended: when an emit call has ended by the error of a listener, the
\* indexes agree; the once nodes whose listeners it called, the failing one
\* included, are in neither index, and a once node that was called once is
\* never called again; every node after the failing one in the snapshot is
\* registered, at its place in the array of the type, unless a call removed
\* it during the emit.  The next emit call of the type has all of these in its
\* snapshot, in the same order, and none of the once nodes that were called;
\* like every emit call it calls the node its loop reaches unless the node
\* was removed before its turn, up to the end of the snapshot when it returns.
C21_AfterAbortedEmit ==
    /\ [](done.outcome = "thrown" =>
            /\ IndexesAgree
            /\ Current(done).id \in Range(done.fired)
            /\ \A id \in OnceFired(done) : Absent(id) /\ TimesCalled(id) = 1
            /\ Ahead(done) \ done.removed \subseteq DOMAIN _eventNodeMapById
            /\ Ahead(done) \cap Range(done.fired) = {}
            /\ Restrict(IdsOfType(_eventNodesMapByType, arrays, done.type), Survivors)
                  = Restrict(SnapshotIds(done), Survivors))
    /\ [](\A id \in OnceIds : TimesCalled(id) >= 1 => Absent(id) /\ TimesCalled(id) = 1)
    /\ [](/\ \A call \in InProgress \cup (IF done.outcome = "thrown" THEN {done} ELSE {}) :
               call.fired = Without(Reached(call), call.offedEarly \cup call.firedEarly)
          /\ done.outcome = "returned" =>
               done.fired = Without(SnapshotIds(done),
                                    done.offedEarly \cup done.firedEarly))
    /\ [][(EmitAgain /\ Survivors # {}) =>
            /\ Len(stack') = Len(stack) + 1
            /\ stack'[Len(stack')].type = done.type
            /\ Survivors \subseteq Ids(stack'[Len(stack')].nodesToExecute)
            /\ Restrict(SnapshotIds(stack'[Len(stack')]), Survivors)
                  = Restrict(SnapshotIds(done), Survivors)
            /\ OnceFired(done) \cap Ids(stack'[Len(stack')].nodesToExecute) = {}
            /\ stack'[Len(stack')].fired = <<stack'[Len(stack')].nodesToExecute[1].id>>]_vars

\* the second of three listeners has raised an error: its node and the first
\* are once nodes, called once each and in neither index; the third node is
\* registered and alone in the array of the type
C21_Witness ==
    /\ lastCall = Raised
    /\ done.outcome = "thrown"
    /\ Len(done.nodesToExecute) = 3
    /\ done.i = 2
    /\ IsOnce(done.nodesToExecute[1])
    /\ IsOnce(done.nodesToExecute[2])
    /\ done.fired = <<done.nodesToExecute[1].id, done.nodesToExecute[2].id>>
    /\ IdsOfType(_eventNodesMapByType, arrays, done.type) = <<done.nodesToExecute[3].id>>
====
